---- MODULE Spec2Model ----
(***************************************************************************)
(* Session/token authority of go-modules (utils/token.go): JWT credentials *)
(* signed with HS256, and the Redis records "token:<user>" and             *)
(* "refresh_token:<user>" that say which credential is live.               *)
(*                                                                         *)
(* A credential string is modelled by the record of everything that        *)
(* determines its bytes: the header's alg, the claims, and the key the     *)
(* signature was computed with.  Two credential strings are equal exactly  *)
(* when these records are equal (HS256 is deterministic and MapClaims is   *)
(* serialised with sorted keys).                                           *)
(***************************************************************************)
EXTENDS Integers, Sequences, FiniteSets, TLC

VARIABLES
    now,        \* the system clock, time.Now().Unix()
    ticks,      \* how many times the clock has advanced (bounded)
    manager,    \* globalRedisTokenManager (nil until SetGlobalRedisTokenManager)
    store,      \* the Redis keyspace: key -> [val, ttl, at]; absent keys are not in DOMAIN
    issued,     \* log of the pairs GenerateTokenPair has returned, in order
    revoked,    \* users whose RevokeAllTokens succeeded, with no store write since
    pc,         \* per caller: position inside IssuePair / Refresh / RevokeAllTokens
    cur,        \* per caller: the operation in flight (flow, user, index into issued)
    last,       \* the step that has just been taken, with its arguments and result
    failed,     \* the IssuePair that wrote the access record and then failed, kept
                \* while the caller's next call is its retry and, after the retry,
                \* until the caller's next issuance or revocation
    client,     \* globalTokenClient (nil until SetGlobalTokenClient)
    signed,     \* log of the GenerateToken calls: request, clock reading, credential
    db,         \* the database behind the PGXPool: the committed rows
    txn,        \* the ExecTxPool call in flight and what it has done to its pgx.Tx
    conn        \* the ConnectDBPool / ConnectDB call in flight: its loop and its result

vars == <<now, ticks, manager, store, issued, revoked, pc, cur, last, failed,
          client, signed, db, txn, conn>>

codecVars == <<client, signed>>

txVars == <<db, txn, conn>>

----------------------------------------------------------------------------
(* Bounds of the model *)

MaxTicks == 1
MaxPairs == 2
MaxSigned == 2
MaxTx == 2
MaxConnects == 1

Users == {"u1"}
Callers == {"c1", "c2"}
SeqCallers == {"c1"}
UsernameOf(u) == IF u = "u1" THEN "alice" ELSE "bob"
Kinds == {"access", "refresh"}

\* clock steps: one second, the access lifetime, the refresh lifetime
TickSteps == {1, 15 * 60, 7 * 24 * 3600}

\* the expiryHours a manager is constructed with (README: NewToken("secret-key", 72))
ExpiryHoursChoices == {72}

Secret == "secret-key"
OtherSecret == "attacker-key"

----------------------------------------------------------------------------
(* Credentials *)

NoToken == [segs |-> 0, alg |-> "", user_id |-> "", username |-> "", exp |-> 0,
            iat |-> 0, type |-> "", key |-> ""]

\* a string that is not three dot-separated segments
Garbage == [NoToken EXCEPT !.segs = 1]

NilClaims == [UserID |-> "", Username |-> ""]

\* a claim that is not in the token, or is not a string
Absent == "<absent>"

NilManager == [isNil |-> TRUE, secret |-> "", expiryHours |-> 0]

\* jwt.NewWithClaims(jwt.SigningMethodHS256, claims).SignedString(secret)
SignedString(claims, secret) ==
    [segs |-> 3, alg |-> "HS256", user_id |-> claims.user_id,
     username |-> claims.username, exp |-> claims.exp, iat |-> claims.iat,
     type |-> claims.type, key |-> secret]

NewRedisTokenManager(secret, expiryHours) ==
    [isNil |-> FALSE, secret |-> secret, expiryHours |-> expiryHours]

\* mutant: the exp claim is not checked
parseJWTToken_NoExpiry(rtm, tokenString, t) ==
    IF tokenString.segs # 3
      THEN [err |-> "token is malformed", claims |-> NilClaims]
    ELSE IF tokenString.alg \notin {"HS256", "HS384", "HS512"}
      THEN [err |-> "unexpected signing method", claims |-> NilClaims]
    ELSE IF tokenString.key # rtm.secret
      THEN [err |-> "signature is invalid", claims |-> NilClaims]
    ELSE IF tokenString.user_id = Absent
      THEN [err |-> "invalid user_id in token claims", claims |-> NilClaims]
    ELSE IF tokenString.username = Absent
      THEN [err |-> "invalid username in token claims", claims |-> NilClaims]
    ELSE [err |-> "",
          claims |-> [UserID |-> tokenString.user_id, Username |-> tokenString.username]]

\* jwt.Parse with the key function of parseJWTToken, then the claim checks
parseJWTToken(rtm, tokenString, t) ==
    IF tokenString.segs # 3
      THEN [err |-> "token is malformed", claims |-> NilClaims]
    ELSE IF tokenString.alg \notin {"HS256", "HS384", "HS512"}
      THEN [err |-> "unexpected signing method", claims |-> NilClaims]
    ELSE IF tokenString.key # rtm.secret
      THEN [err |-> "signature is invalid", claims |-> NilClaims]
    ELSE IF ~(t < tokenString.exp)
      THEN [err |-> "token is expired", claims |-> NilClaims]
    ELSE IF tokenString.user_id = Absent
      THEN [err |-> "invalid user_id in token claims", claims |-> NilClaims]
    ELSE IF tokenString.username = Absent
      THEN [err |-> "invalid username in token claims", claims |-> NilClaims]
    ELSE [err |-> "",
          claims |-> [UserID |-> tokenString.user_id, Username |-> tokenString.username]]

----------------------------------------------------------------------------
(* tokenClient: sign and verify without a session store *)

NilClient == [isNil |-> TRUE, secret |-> "", expiryHours |-> 0]

NewToken(secret, expiryHours) ==
    [isNil |-> FALSE, secret |-> secret, expiryHours |-> expiryHours]

\* a reading of time.Now(): whole seconds and the milliseconds within the second
Reading(sec, ms) == [sec |-> sec, ms |-> ms]

\* Time.Unix() drops the part of the reading below one second
Unix(r) == r.sec

\* mutant: iat is not taken from the clock
TokenClientGenerateToken_FixedIat(t, req, clk) ==
    LET expToken == Unix(clk[1]) + t.expiryHours * 3600
    IN  [err |-> "",
         Token |-> SignedString([user_id |-> req.UserID, username |-> req.Username,
                                 exp |-> expToken, iat |-> 0, type |-> ""],
                                t.secret),
         ExpToken |-> expToken]

\* tokenClient.GenerateToken; clk is the sequence of its two time.Now() readings.
\* The claims carry no "type".
TokenClientGenerateToken(t, req, clk) ==
    LET expToken == Unix(clk[1]) + t.expiryHours * 3600
    IN  [err |-> "",
         Token |-> SignedString([user_id |-> req.UserID, username |-> req.Username,
                                 exp |-> expToken, iat |-> Unix(clk[2]), type |-> ""],
                                t.secret),
         ExpToken |-> expToken]

\* mutant: the signature is not verified
TokenClientValidateToken_NoSignature(t, tokenString, tm) ==
    IF tokenString.segs # 3
      THEN [err |-> "token is malformed", claims |-> NilClaims]
    ELSE IF tokenString.alg \notin {"HS256", "HS384", "HS512"}
      THEN [err |-> "unexpected signing method", claims |-> NilClaims]
    ELSE IF ~(tm < tokenString.exp)
      THEN [err |-> "token is expired", claims |-> NilClaims]
    ELSE IF tokenString.user_id = Absent
      THEN [err |-> "invalid user_id in token claims", claims |-> NilClaims]
    ELSE IF tokenString.username = Absent
      THEN [err |-> "invalid username in token claims", claims |-> NilClaims]
    ELSE [err |-> "",
          claims |-> [UserID |-> tokenString.user_id, Username |-> tokenString.username]]

\* mutant: the key function hands out the secret whatever the signing method is
TokenClientValidateToken_AnyMethod(t, tokenString, tm) ==
    IF tokenString.segs # 3
      THEN [err |-> "token is malformed", claims |-> NilClaims]
    ELSE IF tokenString.key # t.secret
      THEN [err |-> "signature is invalid", claims |-> NilClaims]
    ELSE IF ~(tm < tokenString.exp)
      THEN [err |-> "token is expired", claims |-> NilClaims]
    ELSE IF tokenString.user_id = Absent
      THEN [err |-> "invalid user_id in token claims", claims |-> NilClaims]
    ELSE IF tokenString.username = Absent
      THEN [err |-> "invalid username in token claims", claims |-> NilClaims]
    ELSE [err |-> "",
          claims |-> [UserID |-> tokenString.user_id, Username |-> tokenString.username]]

\* mutant: the user name is not copied into the result
TokenClientValidateToken_NoUsername(t, tokenString, tm) ==
    IF tokenString.segs # 3
      THEN [err |-> "token is malformed", claims |-> NilClaims]
    ELSE IF tokenString.alg \notin {"HS256", "HS384", "HS512"}
      THEN [err |-> "unexpected signing method", claims |-> NilClaims]
    ELSE IF tokenString.key # t.secret
      THEN [err |-> "signature is invalid", claims |-> NilClaims]
    ELSE IF ~(tm < tokenString.exp)
      THEN [err |-> "token is expired", claims |-> NilClaims]
    ELSE IF tokenString.user_id = Absent
      THEN [err |-> "invalid user_id in token claims", claims |-> NilClaims]
    ELSE IF tokenString.username = Absent
      THEN [err |-> "invalid username in token claims", claims |-> NilClaims]
    ELSE [err |-> "", claims |-> [UserID |-> tokenString.user_id, Username |-> ""]]

\* tokenClient.ValidateToken: jwt.Parse with the key function, then the claim checks.
\* jwt.Parse splits the string, runs the key function (which refuses every method
\* that is not HMAC), verifies the signature and only then validates exp.
TokenClientValidateToken(t, tokenString, tm) ==
    IF tokenString.segs # 3
      THEN [err |-> "token is malformed", claims |-> NilClaims]
    ELSE IF tokenString.alg \notin {"HS256", "HS384", "HS512"}
      THEN [err |-> "unexpected signing method", claims |-> NilClaims]
    ELSE IF tokenString.key # t.secret
      THEN [err |-> "signature is invalid", claims |-> NilClaims]
    ELSE IF ~(tm < tokenString.exp)
      THEN [err |-> "token is expired", claims |-> NilClaims]
    ELSE IF tokenString.user_id = Absent
      THEN [err |-> "invalid user_id in token claims", claims |-> NilClaims]
    ELSE IF tokenString.username = Absent
      THEN [err |-> "invalid username in token claims", claims |-> NilClaims]
    ELSE [err |-> "",
          claims |-> [UserID |-> tokenString.user_id, Username |-> tokenString.username]]

ClientNotInitialized == "token client not initialized"

\* func ValidateToken(tokenString): the global token client, nil-checked
GlobalValidateToken(cl, tokenString, tm) ==
    IF cl.isNil THEN [err |-> ClientNotInitialized, claims |-> NilClaims]
    ELSE TokenClientValidateToken(cl, tokenString, tm)

\* func GenerateToken(req): the global token client, nil-checked
GenerateToken(cl, req, clk) ==
    IF cl.isNil THEN [err |-> ClientNotInitialized, Token |-> NoToken, ExpToken |-> 0]
    ELSE TokenClientGenerateToken(cl, req, clk)

----------------------------------------------------------------------------
(* The Redis client *)

\* a key whose TTL has run out is gone; expiration 0 means no TTL
Expired(rec, t) == rec.ttl > 0 /\ t >= rec.at + rec.ttl

Live(st, t) == {k \in DOMAIN st : ~Expired(st[k], t)}

Purge(st, t) == [k \in Live(st, t) |-> st[k]]

\* redisClient.Set(ctx, key, value, expiration).Err()
RedisSet(st, key, value, expiration, t, fail) ==
    IF fail
      THEN [err |-> "redis: connection refused", store |-> st]
      ELSE [err |-> "",
            store |-> [k \in DOMAIN st \cup {key} |->
                         IF k = key THEN [val |-> value, ttl |-> expiration, at |-> t]
                                    ELSE st[k]]]

\* mutant: a failed read looks like an absent key
RedisGet_FailAsNil(st, key, fail) ==
    IF fail \/ key \notin DOMAIN st THEN [err |-> "redis: nil", val |-> NoToken]
    ELSE [err |-> "", val |-> st[key].val]

\* redisClient.Get(ctx, key).Result()
RedisGet(st, key, fail) ==
    IF fail THEN [err |-> "redis: connection refused", val |-> NoToken]
    ELSE IF key \notin DOMAIN st THEN [err |-> "redis: nil", val |-> NoToken]
    ELSE [err |-> "", val |-> st[key].val]

\* mutant: a failed delete reports no error
RedisDel_SwallowError(st, key, fail) ==
    IF fail
      THEN [err |-> "", store |-> st]
      ELSE [err |-> "", store |-> [k \in DOMAIN st \ {key} |-> st[k]]]

\* redisClient.Del(ctx, key).Err()
RedisDel(st, key, fail) ==
    IF fail
      THEN [err |-> "redis: connection refused", store |-> st]
      ELSE [err |-> "", store |-> [k \in DOMAIN st \ {key} |-> st[k]]]

AccessKey(userID) == "token:" \o userID
RefreshKey(userID) == "refresh_token:" \o userID

----------------------------------------------------------------------------
(* RedisTokenManager *)

\* mutant: SETNX instead of SET, an existing record is kept
StoreToken_KeepExisting(rtm, st, userID, token, t, fail) ==
    IF ~fail /\ AccessKey(userID) \in DOMAIN st
      THEN [err |-> "", store |-> st]
      ELSE RedisSet(st, AccessKey(userID), token, rtm.expiryHours * 3600, t, fail)

StoreToken(rtm, st, userID, token, t, fail) ==
    RedisSet(st, AccessKey(userID), token, rtm.expiryHours * 3600, t, fail)

\* mutant: the stored value is not compared with the presented credential
ValidateToken_NoCompare(rtm, st, tokenString, t, fail) ==
    LET parsed == parseJWTToken(rtm, tokenString, t)
        key    == AccessKey(parsed.claims.UserID)
        got    == RedisGet(st, key, fail)
    IN  IF parsed.err # ""
          THEN [err |-> "invalid JWT token: " \o parsed.err, claims |-> NilClaims,
                reads |-> <<>>, store |-> st]
        ELSE IF got.err = "redis: nil"
          THEN [err |-> "token not found in Redis - user may have logged out",
                claims |-> NilClaims, reads |-> <<key>>,
                store |-> st]
        ELSE IF got.err # ""
          THEN [err |-> "Redis error: " \o got.err, claims |-> NilClaims,
                reads |-> <<key>>,
                store |-> st]
        ELSE [err |-> "", claims |-> parsed.claims, reads |-> <<key>>,
                store |-> st]

\* mutant: the record of the user_id written in the credential is looked up before
\* the credential is verified
ValidateToken_ReadFirst(rtm, st, tokenString, t, fail) ==
    LET parsed == parseJWTToken(rtm, tokenString, t)
        key    == AccessKey(tokenString.user_id)
        got    == RedisGet(st, key, fail)
    IN  IF got.err = "redis: nil"
          THEN [err |-> "token not found in Redis - user may have logged out",
                claims |-> NilClaims, reads |-> <<key>>,
                store |-> st]
        ELSE IF got.err # ""
          THEN [err |-> "Redis error: " \o got.err, claims |-> NilClaims,
                reads |-> <<key>>,
                store |-> st]
        ELSE IF parsed.err # ""
          THEN [err |-> "invalid JWT token: " \o parsed.err, claims |-> NilClaims,
                reads |-> <<key>>,
                store |-> st]
        ELSE IF got.val # tokenString
          THEN [err |-> "token mismatch - invalid session", claims |-> NilClaims,
                reads |-> <<key>>,
                store |-> st]
        ELSE [err |-> "", claims |-> parsed.claims, reads |-> <<key>>,
                store |-> st]

\* mutant: a successful validation renews the TTL of the record
ValidateToken_Touch(rtm, st, tokenString, t, fail) ==
    LET parsed == parseJWTToken(rtm, tokenString, t)
        key    == AccessKey(parsed.claims.UserID)
        got    == RedisGet(st, key, fail)
    IN  IF parsed.err # ""
          THEN [err |-> "invalid JWT token: " \o parsed.err, claims |-> NilClaims,
                reads |-> <<>>, store |-> st]
        ELSE IF got.err = "redis: nil"
          THEN [err |-> "token not found in Redis - user may have logged out",
                claims |-> NilClaims, reads |-> <<key>>, store |-> st]
        ELSE IF got.err # ""
          THEN [err |-> "Redis error: " \o got.err, claims |-> NilClaims,
                reads |-> <<key>>, store |-> st]
        ELSE IF got.val # tokenString
          THEN [err |-> "token mismatch - invalid session", claims |-> NilClaims,
                reads |-> <<key>>, store |-> st]
        ELSE [err |-> "", claims |-> parsed.claims, reads |-> <<key>>,
              store |-> RedisSet(st, key, tokenString, rtm.expiryHours * 3600, t,
                                 FALSE).store]

\* reads is the sequence of the keys the call has read from Redis, store the
\* keyspace after the call
ValidateToken(rtm, st, tokenString, t, fail) ==
    LET parsed == parseJWTToken(rtm, tokenString, t)
        key    == AccessKey(parsed.claims.UserID)
        got    == RedisGet(st, key, fail)
    IN  IF parsed.err # ""
          THEN [err |-> "invalid JWT token: " \o parsed.err, claims |-> NilClaims,
                reads |-> <<>>, store |-> st]
        ELSE IF got.err = "redis: nil"
          THEN [err |-> "token not found in Redis - user may have logged out",
                claims |-> NilClaims, reads |-> <<key>>,
                store |-> st]
        ELSE IF got.err # ""
          THEN [err |-> "Redis error: " \o got.err, claims |-> NilClaims,
                reads |-> <<key>>,
                store |-> st]
        ELSE IF got.val # tokenString
          THEN [err |-> "token mismatch - invalid session", claims |-> NilClaims,
                reads |-> <<key>>,
                store |-> st]
        ELSE [err |-> "", claims |-> parsed.claims, reads |-> <<key>>,
                store |-> st]

\* mutant: reports success without deleting the key
RevokeToken_NoDelete(rtm, st, userID, fail) ==
    IF fail THEN [err |-> "redis: connection refused", store |-> st]
    ELSE [err |-> "", store |-> st]

\* mutant: logging out of the access session removes the refresh record as well
RevokeToken_BothKeys(rtm, st, userID, fail) ==
    IF fail THEN [err |-> "redis: connection refused", store |-> st]
    ELSE [err |-> "",
          store |-> [k \in DOMAIN st \ {AccessKey(userID), RefreshKey(userID)} |-> st[k]]]

RevokeToken(rtm, st, userID, fail) == RedisDel(st, AccessKey(userID), fail)

----------------------------------------------------------------------------
(* Package-level functions on the global manager *)

NotInitialized == "Redis token manager not initialized"

ValidateTokenWithRedis(rtm, st, tokenString, t, fail) ==
    IF rtm.isNil THEN [err |-> NotInitialized, claims |-> NilClaims, reads |-> <<>>,
                store |-> st]
    ELSE ValidateToken(rtm, st, tokenString, t, fail)

\* mutant: the manager is used without the nil check
StoreTokenInRedis_NoNilCheck(rtm, st, userID, token, t, fail) ==
    StoreToken(rtm, st, userID, token, t, fail)

StoreTokenInRedis(rtm, st, userID, token, t, fail) ==
    IF rtm.isNil THEN [err |-> NotInitialized, store |-> st]
    ELSE StoreToken(rtm, st, userID, token, t, fail)

\* mutant: when the access delete fails the refresh record is deleted all the same
RevokeTokenFromRedis_RefreshAnyway(rtm, st, userID, fail) ==
    IF rtm.isNil THEN [err |-> NotInitialized, store |-> st]
    ELSE IF fail
      THEN [err |-> "redis: connection refused",
            store |-> RedisDel(st, RefreshKey(userID), FALSE).store]
    ELSE RevokeToken(rtm, st, userID, fail)

RevokeTokenFromRedis(rtm, st, userID, fail) ==
    IF rtm.isNil THEN [err |-> NotInitialized, store |-> st]
    ELSE RevokeToken(rtm, st, userID, fail)

\* clk is the sequence of the four time.Now() readings, in program order
GenerateTokenPair(rtm, req, clk) ==
    IF rtm.isNil
      THEN [err |-> NotInitialized, AccessToken |-> NoToken, RefreshToken |-> NoToken,
            ExpiresIn |-> 0]
      ELSE [err |-> "",
            AccessToken |->
              SignedString([user_id |-> req.UserID, username |-> req.Username,
                            exp |-> clk[1] + 15 * 60, iat |-> clk[2],
                            type |-> "access"], rtm.secret),
            RefreshToken |->
              SignedString([user_id |-> req.UserID, username |-> req.Username,
                            exp |-> clk[3] + 7 * 24 * 3600, iat |-> clk[4],
                            type |-> "refresh"], rtm.secret),
            ExpiresIn |-> 900]

\* mutant: the refresh credential is written under the access key
StoreRefreshTokenInRedis_AccessKey(rtm, st, userID, token, t, fail) ==
    IF rtm.isNil THEN [err |-> NotInitialized, store |-> st]
    ELSE RedisSet(st, AccessKey(userID), token, 7 * 24 * 3600, t, fail)

StoreRefreshTokenInRedis(rtm, st, userID, token, t, fail) ==
    IF rtm.isNil THEN [err |-> NotInitialized, store |-> st]
    ELSE RedisSet(st, RefreshKey(userID), token, 7 * 24 * 3600, t, fail)

\* mutant: the stored value is not compared with the presented credential
ValidateRefreshToken_NoCompare(rtm, st, tokenString, t, fail) ==
    IF rtm.isNil THEN [err |-> NotInitialized, claims |-> NilClaims, reads |-> <<>>,
                store |-> st]
    ELSE
      LET parsed == parseJWTToken(rtm, tokenString, t)
          key    == RefreshKey(parsed.claims.UserID)
          got    == RedisGet(st, key, fail)
      IN  IF parsed.err # ""
            THEN [err |-> "invalid JWT token: " \o parsed.err, claims |-> NilClaims,
                  reads |-> <<>>, store |-> st]
          ELSE IF got.err = "redis: nil"
            THEN [err |-> "refresh token not found - user may have logged out",
                  claims |-> NilClaims, reads |-> <<key>>,
                store |-> st]
          ELSE IF got.err # ""
            THEN [err |-> "Redis error: " \o got.err, claims |-> NilClaims,
                  reads |-> <<key>>,
                store |-> st]
          ELSE [err |-> "", claims |-> parsed.claims, reads |-> <<key>>,
                store |-> st]

\* mutant: the refresh validation looks the credential up under the access key
ValidateRefreshToken_AccessRecord(rtm, st, tokenString, t, fail) ==
    IF rtm.isNil THEN [err |-> NotInitialized, claims |-> NilClaims, reads |-> <<>>,
                       store |-> st]
    ELSE ValidateToken(rtm, st, tokenString, t, fail)

ValidateRefreshToken(rtm, st, tokenString, t, fail) ==
    IF rtm.isNil THEN [err |-> NotInitialized, claims |-> NilClaims, reads |-> <<>>,
                store |-> st]
    ELSE
      LET parsed == parseJWTToken(rtm, tokenString, t)
          key    == RefreshKey(parsed.claims.UserID)
          got    == RedisGet(st, key, fail)
      IN  IF parsed.err # ""
            THEN [err |-> "invalid JWT token: " \o parsed.err, claims |-> NilClaims,
                  reads |-> <<>>, store |-> st]
          ELSE IF got.err = "redis: nil"
            THEN [err |-> "refresh token not found - user may have logged out",
                  claims |-> NilClaims, reads |-> <<key>>,
                store |-> st]
          ELSE IF got.err # ""
            THEN [err |-> "Redis error: " \o got.err, claims |-> NilClaims,
                  reads |-> <<key>>,
                store |-> st]
          ELSE IF got.val # tokenString
            THEN [err |-> "refresh token mismatch - invalid session",
                  claims |-> NilClaims, reads |-> <<key>>,
                store |-> st]
          ELSE [err |-> "", claims |-> parsed.claims, reads |-> <<key>>,
                store |-> st]

\* mutant: deletes the access key instead of the refresh key
RevokeRefreshTokenFromRedis_AccessKey(rtm, st, userID, fail) ==
    IF rtm.isNil THEN [err |-> NotInitialized, store |-> st]
    ELSE RedisDel(st, AccessKey(userID), fail)

RevokeRefreshTokenFromRedis(rtm, st, userID, fail) ==
    IF rtm.isNil THEN [err |-> NotInitialized, store |-> st]
    ELSE RedisDel(st, RefreshKey(userID), fail)

\* RevokeAllTokens as one call; fail1 and fail2 say whether its first and its
\* second delete fail
RevokeAllTokens(rtm, st, userID, fail1, fail2) ==
    LET a == RevokeTokenFromRedis(rtm, st, userID, fail1)
    IN  IF a.err # "" THEN a
        ELSE RevokeRefreshTokenFromRedis(rtm, a.store, userID, fail2)

----------------------------------------------------------------------------
(* What callers present, and what a returned call looks like *)

\* the four time.Now() readings of GenerateTokenPair; a second boundary may fall
\* between two of them: cross = k > 0 means readings k..4 see the next second.
\* The session protocol below is explored with all four in one second.
Readings(t, cross) == [i \in 1..4 |-> IF cross > 0 /\ i >= cross THEN t + 1 ELSE t]

Minted == {issued[i].access : i \in DOMAIN issued} \cup
          {issued[i].refresh : i \in DOMAIN issued}

\* credentials an attacker derives from one it has seen
Forged(tok) == {[tok EXCEPT !.alg = "none", !.key = ""],
                [tok EXCEPT !.exp = tok.exp + 7 * 24 * 3600, !.key = OtherSecret]}

Known == Minted \cup {store[k].val : k \in DOMAIN store}

Presentable == Known \cup UNION {Forged(tok) : tok \in Known} \cup {Garbage}

Idle == [flow |-> "", user |-> "", idx |-> 0]

\* no IssuePair has failed half-way
NoAttempt == [user |-> "", access |-> NoToken, refresh |-> NoToken, retried |-> FALSE]

\* a composite that fails hands no pair to its caller: its entry leaves the log,
\* and the callers working on later entries follow their entries down
Drop(log, i) == SubSeq(log, 1, i - 1) \o SubSeq(log, i + 1, Len(log))

Abandon(c) == [d \in Callers |->
                 IF d = c THEN Idle
                 ELSE IF cur[d].idx > cur[c].idx
                        THEN [cur[d] EXCEPT !.idx = @ - 1]
                        ELSE cur[d]]

Ret(op, user, tok, access, refresh, err, claims, fail) ==
    [op |-> op, user |-> user, tok |-> tok, access |-> access,
     refresh |-> refresh, err |-> err, claims |-> claims, fail |-> fail]

----------------------------------------------------------------------------
(* ExecTxPool: a callback run inside a database transaction *)

Rows == {"r1", "r2"}

\* no ExecTxPool call has been made
NoTx == [pc |-> "idle", runs |-> 0, begun |-> FALSE, before |-> {}, writes |-> {},
         fnReturned |-> FALSE, fnErr |-> "", commitCalled |-> FALSE,
         committed |-> FALSE, rollbackCalled |-> FALSE, ret |-> "",
         panicked |-> FALSE]

\* pool.Begin(ctx)
PoolBegin(fail) == IF fail THEN "pool: connection refused" ELSE ""

\* tx.Commit(ctx): the writes of the transaction reach the database, or none does
TxCommit(rows, writes, fail) ==
    IF fail THEN [err |-> "commit: connection lost", db |-> rows]
            ELSE [err |-> "", db |-> rows \cup writes]

\* tx.Rollback(ctx): the writes of the transaction are discarded
TxRollback(rows, writes, fail) ==
    IF fail THEN [err |-> "rollback: connection lost", db |-> rows]
            ELSE [err |-> "", db |-> rows]

\* mutant: the result of the callback is not looked at
AfterFn_AlwaysCommit(err) == "commit"

\* what ExecTxPool does with the transaction once fn has returned err
AfterFn(err) == IF err # "" THEN "rollback" ELSE "commit"

----------------------------------------------------------------------------
(* ConnectDBPool / ConnectDB: connecting to the database with retries *)

maxRetries == 5
SleepSeconds == 2

OpenErrors == {"", "open: invalid connection string"}
PingErrors == {"", "ping: connection refused"}

\* no connect call has been made
NoConnect == [pc |-> "idle", kind |-> "", calls |-> 0, i |-> 0, attempts |-> 0,
              sleeps |-> 0, waited |-> 0, errs |-> <<>>,
              ret |-> [conn |-> "none", err |-> ""]]

\* mutant: the loop goes on for as long as the attempts fail
AfterFailure_NoBound(i) == "sleep"

\* after the failed attempt i (counted from 0): sleep and go round again, or leave
\* the loop
AfterFailure(i) == IF i < maxRetries - 1 THEN "sleep" ELSE "return"

\* fmt.Errorf("failed to connect to database after %d attempts: %w", maxRetries, err)
ConnectError(err) == "failed to connect to database after 5 attempts: " \o err

\* the attempt that has just failed with err: log it, then sleep or return
Failed(c, err) ==
    LET errs == Append(c.errs, err)
    IN  IF AfterFailure(c.i) = "sleep"
          THEN [c EXCEPT !.errs = errs, !.pc = "sleep"]
          ELSE [c EXCEPT !.errs = errs, !.pc = "done",
                         !.ret = [conn |-> "nil", err |-> ConnectError(err)]]

Init ==
    /\ now = 0
    /\ ticks = 0
    /\ manager = NilManager
    /\ store = [k \in {} |-> NoToken]
    /\ issued = <<>>
    /\ revoked = {}
    /\ pc = [c \in Callers |-> "idle"]
    /\ cur = [c \in Callers |-> Idle]
    /\ last = Ret("init", "", NoToken, NoToken, NoToken, "", NilClaims, FALSE)
    /\ failed = NoAttempt
    /\ client = NilClient
    /\ signed = <<>>
    /\ db = {}
    /\ txn = NoTx
    /\ conn = NoConnect

SetGlobalRedisTokenManager(h) ==
    /\ manager.isNil
    /\ manager' = NewRedisTokenManager(Secret, h)
    /\ last' = Ret("SetGlobalRedisTokenManager", "", NoToken, NoToken, NoToken, "",
                   NilClaims, FALSE)
    /\ UNCHANGED <<now, ticks, store, issued, revoked, pc, cur>>
    /\ UNCHANGED <<failed, codecVars, txVars>>

\* the clock advances; Redis drops the keys whose TTL has run out
Tick(d) ==
    /\ ticks < MaxTicks
    /\ now' = now + d
    /\ ticks' = ticks + 1
    /\ store' = Purge(store, now')
    /\ last' = Ret("Tick", "", NoToken, NoToken, NoToken, "", NilClaims, FALSE)
    /\ UNCHANGED <<manager, issued, revoked, pc, cur>>
    /\ UNCHANGED <<failed, codecVars, txVars>>

\* the minting step shared by IssuePair and Refresh: GenerateTokenPair returned r
Mint(c, flow, req, old, r, st) ==
    /\ Len(issued) < MaxPairs
    /\ issued' = Append(issued, [user |-> req.UserID, access |-> r.AccessToken,
                                 refresh |-> r.RefreshToken, old |-> old,
                                 flow |-> flow, ok |-> FALSE])
    /\ pc' = [pc EXCEPT ![c] = "storeAccess"]
    /\ cur' = [cur EXCEPT ![c] = [flow |-> flow, user |-> req.UserID,
                                  idx |-> Len(issued) + 1]]
    /\ last' = Ret("GenerateTokenPair", req.UserID, old, r.AccessToken,
                   r.RefreshToken, "", NilClaims, FALSE)
    /\ store' = st
    /\ UNCHANGED <<now, ticks, manager, revoked>>
    /\ failed' = IF ~failed.retried /\ flow = "IssuePair" /\ req.UserID = failed.user
                   THEN failed ELSE NoAttempt
    /\ UNCHANGED <<codecVars, txVars>>

\* IssuePair, step 1: GenerateTokenPair
IssuePairGenerate(c, u) ==
    /\ pc[c] = "idle"
    /\ LET req == [UserID |-> u, Username |-> UsernameOf(u)]
           r   == GenerateTokenPair(manager, req, Readings(now, 0))
       IN  IF r.err # ""
             THEN /\ last' = Ret("IssuePair", u, NoToken, NoToken, NoToken, r.err,
                                 NilClaims, FALSE)
                  /\ UNCHANGED <<now, ticks, manager, store, issued, revoked, pc, cur>>
                  /\ UNCHANGED <<failed, codecVars, txVars>>
             ELSE Mint(c, "IssuePair", req, NoToken, r, store)

\* Refresh, step 1: ValidateRefreshToken, then GenerateTokenPair for its claims
RefreshValidate(c, tok, fail) ==
    /\ pc[c] = "idle"
    /\ LET v == ValidateRefreshToken(manager, store, tok, now, fail)
           r == GenerateTokenPair(manager, v.claims, Readings(now, 0))
       IN  IF v.err # ""
             THEN /\ last' = Ret("Refresh", tok.user_id, tok, NoToken, NoToken, v.err,
                                 NilClaims, fail)
                  /\ store' = v.store
                  /\ UNCHANGED <<now, ticks, manager, issued, revoked, pc, cur>>
                  /\ failed' = IF failed.retried THEN failed ELSE NoAttempt
                  /\ UNCHANGED <<codecVars, txVars>>
             ELSE Mint(c, "Refresh", v.claims, tok, r, v.store)

\* IssuePair / Refresh, step 2: StoreTokenInRedis
StoreAccess(c, fail) ==
    /\ pc[c] = "storeAccess"
    /\ LET e == issued[cur[c].idx]
           r == StoreTokenInRedis(manager, store, cur[c].user, e.access, now, fail)
       IN  /\ store' = r.store
           /\ IF r.err # ""
                THEN /\ pc' = [pc EXCEPT ![c] = "idle"]
                     /\ cur' = Abandon(c)
                     /\ issued' = Drop(issued, cur[c].idx)
                     /\ revoked' = revoked
                     /\ last' = Ret(cur[c].flow, cur[c].user, e.old, NoToken,
                                    NoToken, r.err, NilClaims, fail)
                ELSE /\ pc' = [pc EXCEPT ![c] = "storeRefresh"]
                     /\ cur' = cur
                     /\ issued' = issued
                     /\ revoked' = revoked \ {cur[c].user}
                     /\ last' = Ret("StoreTokenInRedis", cur[c].user, e.access,
                                    NoToken, NoToken, "", NilClaims, fail)
    /\ UNCHANGED <<now, ticks, manager>>
    /\ UNCHANGED <<failed, codecVars, txVars>>

\* IssuePair / Refresh, step 3: StoreRefreshTokenInRedis, then return the pair
StoreRefresh(c, fail) ==
    /\ pc[c] = "storeRefresh"
    /\ LET e == issued[cur[c].idx]
           r == StoreRefreshTokenInRedis(manager, store, cur[c].user, e.refresh,
                                         now, fail)
       IN  /\ store' = r.store
           /\ IF r.err # ""
                THEN /\ issued' = Drop(issued, cur[c].idx)
                     /\ cur' = Abandon(c)
                     /\ revoked' = revoked
                     /\ failed' = IF cur[c].flow = "IssuePair"
                                    THEN [user |-> cur[c].user, access |-> e.access,
                                          refresh |-> e.refresh, retried |-> FALSE]
                                    ELSE failed
                     /\ last' = Ret(cur[c].flow, cur[c].user, e.old, NoToken,
                                    NoToken, r.err, NilClaims, fail)
                ELSE /\ issued' = [issued EXCEPT ![cur[c].idx].ok = TRUE]
                     /\ cur' = [cur EXCEPT ![c] = Idle]
                     /\ revoked' = revoked \ {cur[c].user}
                     /\ failed' = IF cur[c].flow = "IssuePair" /\ failed.user = cur[c].user
                                    THEN [failed EXCEPT !.retried = TRUE]
                                    ELSE failed
                     /\ last' = Ret(cur[c].flow, cur[c].user, e.old, e.access,
                                    e.refresh, "", NilClaims, fail)
    /\ pc' = [pc EXCEPT ![c] = "idle"]
    /\ UNCHANGED <<now, ticks, manager>>
    /\ UNCHANGED <<codecVars, txVars>>

\* ValidateAccess
ValidateAccess(c, tok, fail) ==
    /\ pc[c] = "idle"
    /\ LET v == ValidateTokenWithRedis(manager, store, tok, now, fail)
       IN  /\ last' = Ret("ValidateAccess", tok.user_id, tok, NoToken, NoToken, v.err,
                          v.claims, fail)
           /\ store' = v.store
    /\ UNCHANGED <<now, ticks, manager, issued, revoked, pc, cur>>
    /\ failed' = IF failed.retried THEN failed ELSE NoAttempt
    /\ UNCHANGED <<codecVars, txVars>>

\* refresh validation on its own
ValidateRefresh(c, tok, fail) ==
    /\ pc[c] = "idle"
    /\ LET v == ValidateRefreshToken(manager, store, tok, now, fail)
       IN  /\ last' = Ret("ValidateRefresh", tok.user_id, tok, NoToken, NoToken, v.err,
                          v.claims, fail)
           /\ store' = v.store
    /\ UNCHANGED <<now, ticks, manager, issued, revoked, pc, cur>>
    /\ failed' = IF failed.retried THEN failed ELSE NoAttempt
    /\ UNCHANGED <<codecVars, txVars>>

\* RevokeAllTokens, first statement: RevokeTokenFromRedis, return on error
RevokeAllTokensAccess(c, u, fail) ==
    /\ pc[c] = "idle"
    /\ LET r == RevokeTokenFromRedis(manager, store, u, fail)
       IN  /\ store' = r.store
           /\ IF r.err # ""
                THEN /\ pc' = pc
                     /\ cur' = cur
                     /\ last' = Ret("RevokeAllTokens", u, NoToken, NoToken, NoToken,
                                    r.err, NilClaims, fail)
                ELSE /\ pc' = [pc EXCEPT ![c] = "revokeRefresh"]
                     /\ cur' = [cur EXCEPT ![c] = [Idle EXCEPT !.flow = "RevokeAllTokens",
                                                               !.user = u]]
                     /\ last' = Ret("RevokeTokenFromRedis", u, NoToken, NoToken,
                                    NoToken, "", NilClaims, fail)
    /\ UNCHANGED <<now, ticks, manager, issued, revoked>>
    /\ failed' = NoAttempt
    /\ UNCHANGED <<codecVars, txVars>>

\* RevokeAllTokens, second statement: return RevokeRefreshTokenFromRedis
RevokeAllTokensRefresh(c, fail) ==
    /\ pc[c] = "revokeRefresh"
    /\ LET r == RevokeRefreshTokenFromRedis(manager, store, cur[c].user, fail)
       IN  /\ store' = r.store
           /\ revoked' = IF r.err = "" THEN revoked \cup {cur[c].user} ELSE revoked
           /\ last' = Ret("RevokeAllTokens", cur[c].user, NoToken, NoToken, NoToken,
                          r.err, NilClaims, fail)
    /\ pc' = [pc EXCEPT ![c] = "idle"]
    /\ cur' = [cur EXCEPT ![c] = Idle]
    /\ UNCHANGED <<now, ticks, manager, issued>>
    /\ UNCHANGED <<failed, codecVars, txVars>>

----------------------------------------------------------------------------
(* The store functions called on their own, for several principals *)

Principals == {"u1", "u2"}

\* the pair GenerateTokenPair mints for p at the present clock reading
PairOf(p) == GenerateTokenPair(manager, [UserID |-> p, Username |-> UsernameOf(p)],
                               Readings(now, 0))

StoreTokenInRedisCall(p, fail) ==
    /\ LET r == StoreTokenInRedis(manager, store, p, PairOf(p).AccessToken, now, fail)
       IN  /\ store' = r.store
           /\ last' = Ret("StoreTokenInRedis", p, PairOf(p).AccessToken, NoToken,
                          NoToken, r.err, NilClaims, fail)
    /\ UNCHANGED <<now, ticks, manager, issued, revoked, pc, cur>>
    /\ UNCHANGED <<failed, codecVars, txVars>>

StoreRefreshTokenInRedisCall(p, fail) ==
    /\ LET r == StoreRefreshTokenInRedis(manager, store, p, PairOf(p).RefreshToken,
                                         now, fail)
       IN  /\ store' = r.store
           /\ last' = Ret("StoreRefreshTokenInRedis", p, PairOf(p).RefreshToken,
                          NoToken, NoToken, r.err, NilClaims, fail)
    /\ UNCHANGED <<now, ticks, manager, issued, revoked, pc, cur>>
    /\ UNCHANGED <<failed, codecVars, txVars>>

RevokeTokenFromRedisCall(p, fail) ==
    /\ LET r == RevokeTokenFromRedis(manager, store, p, fail)
       IN  /\ store' = r.store
           /\ last' = Ret("RevokeTokenFromRedis", p, NoToken, NoToken, NoToken,
                          r.err, NilClaims, fail)
    /\ UNCHANGED <<now, ticks, manager, issued, revoked, pc, cur>>
    /\ UNCHANGED <<failed, codecVars, txVars>>

RevokeRefreshTokenFromRedisCall(p, fail) ==
    /\ LET r == RevokeRefreshTokenFromRedis(manager, store, p, fail)
       IN  /\ store' = r.store
           /\ last' = Ret("RevokeRefreshTokenFromRedis", p, NoToken, NoToken, NoToken,
                          r.err, NilClaims, fail)
    /\ UNCHANGED <<now, ticks, manager, issued, revoked, pc, cur>>
    /\ UNCHANGED <<failed, codecVars, txVars>>

\* the process starts again: its globals are nil, the records in Redis remain
Restart ==
    /\ ~manager.isNil
    /\ manager' = NilManager
    /\ client' = NilClient
    /\ pc' = [c \in Callers |-> "idle"]
    /\ cur' = [c \in Callers |-> Idle]
    /\ last' = Ret("Restart", "", NoToken, NoToken, NoToken, "", NilClaims, FALSE)
    /\ UNCHANGED <<now, ticks, store, issued, revoked, failed, signed, txVars>>

----------------------------------------------------------------------------
(* Actions of ConnectDBPool / ConnectDB *)

\* ConnectDBPool(databaseURL) (kind "pool") or ConnectDB(databaseURL) (kind "sql")
\* is called
ConnectStart(kind) ==
    /\ conn.pc \in {"idle", "done"}
    /\ conn.calls < MaxConnects
    /\ conn' = [NoConnect EXCEPT !.pc = "open", !.kind = kind, !.calls = conn.calls + 1]
    /\ UNCHANGED <<now, ticks, manager, store, issued, revoked, pc, cur, last, failed,
                   codecVars, db, txn>>

\* pgxpool.New / sql.Open of attempt i
ConnectOpen(err) ==
    /\ conn.pc = "open"
    /\ conn' = IF err = ""
                 THEN [conn EXCEPT !.attempts = @ + 1, !.pc = "ping"]
                 ELSE Failed([conn EXCEPT !.attempts = @ + 1], err)
    /\ UNCHANGED <<now, ticks, manager, store, issued, revoked, pc, cur, last, failed,
                   codecVars, db, txn>>

\* Ping of attempt i: return the connection, or count the attempt as failed
ConnectPing(err) ==
    /\ conn.pc = "ping"
    /\ conn' = IF err = ""
                 THEN [conn EXCEPT !.pc = "done", !.ret = [conn |-> conn.kind, err |-> ""]]
                 ELSE Failed(conn, err)
    /\ UNCHANGED <<now, ticks, manager, store, issued, revoked, pc, cur, last, failed,
                   codecVars, db, txn>>

\* time.Sleep(time.Second * 2), then i++
ConnectSleep ==
    /\ conn.pc = "sleep"
    /\ conn' = [conn EXCEPT !.sleeps = @ + 1, !.waited = @ + SleepSeconds,
                            !.i = @ + 1, !.pc = "open"]
    /\ UNCHANGED <<now, ticks, manager, store, issued, revoked, pc, cur, last, failed,
                   codecVars, db, txn>>

----------------------------------------------------------------------------
(* Actions of the codec: sign and verify called on their own *)

CodecExpiryHours == {1, 72}

Millis == {0, 500}

Crossings == {0, 2, 3, 4}

\* the clock steps of the codec runs: to the next second, to the expiry of a
\* credential signed by the token client
CodecTickSteps == {1, 72 * 3600}

\* credentials somebody holds: the ones GenerateToken has returned
CodecHeld == {signed[i].Token : i \in DOMAIN signed}

\* what an attacker makes of a credential: another algorithm tag with the payload
\* kept, the same claims signed with another key, and the forgeries above
Tampered(tok) == Forged(tok) \cup {[tok EXCEPT !.alg = "RS256"],
                                  [tok EXCEPT !.key = OtherSecret]}

CodecPresentable == CodecHeld \cup UNION {Tampered(tok) : tok \in CodecHeld}
                    \cup {Garbage}

SetGlobalTokenClient(h) ==
    /\ client.isNil
    /\ client' = NewToken(Secret, h)
    /\ last' = Ret("SetGlobalTokenClient", "", NoToken, NoToken, NoToken, "",
                   NilClaims, FALSE)
    /\ UNCHANGED <<now, ticks, manager, store, issued, revoked, pc, cur, failed,
                   signed, txVars>>

\* GenerateToken(req), both readings of the clock at ms milliseconds into the second
GenerateTokenCall(u, ms) ==
    /\ Len(signed) < MaxSigned
    /\ LET req == [UserID |-> u, Username |-> UsernameOf(u)]
           rd  == Reading(now, ms)
           r   == GenerateToken(client, req, <<rd, rd>>)
       IN  /\ signed' = IF r.err # "" THEN signed
                         ELSE Append(signed, [req |-> req, at |-> rd,
                                              secret |-> client.secret,
                                              expiryHours |-> client.expiryHours,
                                              Token |-> r.Token,
                                              ExpToken |-> r.ExpToken])
           /\ last' = Ret("GenerateToken", u, NoToken, r.Token, NoToken, r.err,
                          NilClaims, FALSE)
    /\ UNCHANGED <<now, ticks, manager, store, issued, revoked, pc, cur, failed,
                   client, txVars>>

\* GenerateTokenPair(req) on its own; a second boundary may fall between its readings
GenerateTokenPairCall(u, cross) ==
    /\ LET req == [UserID |-> u, Username |-> UsernameOf(u)]
           r   == GenerateTokenPair(manager, req, Readings(now, cross))
       IN  last' = Ret("GenerateTokenPair", u, NoToken, r.AccessToken, r.RefreshToken,
                       r.err, NilClaims, cross # 0)
    /\ UNCHANGED <<now, ticks, manager, store, issued, revoked, pc, cur, failed,
                   codecVars, txVars>>

\* ValidateToken(tokenString)
ValidateTokenCall(tok) ==
    /\ LET v == GlobalValidateToken(client, tok, now)
       IN  last' = Ret("ValidateToken", tok.user_id, tok, NoToken, NoToken, v.err,
                       v.claims, FALSE)
    /\ UNCHANGED <<now, ticks, manager, store, issued, revoked, pc, cur, failed,
                   codecVars, txVars>>

\* rtm.parseJWTToken(tokenString)
ParseJWTTokenCall(tok) ==
    /\ ~manager.isNil
    /\ LET v == parseJWTToken(manager, tok, now)
       IN  last' = Ret("parseJWTToken", tok.user_id, tok, NoToken, NoToken, v.err,
                       v.claims, FALSE)
    /\ UNCHANGED <<now, ticks, manager, store, issued, revoked, pc, cur, failed,
                   codecVars, txVars>>

----------------------------------------------------------------------------
(* Actions of ExecTxPool *)

\* tx, err := pool.Begin(ctx); return on error
ExecTxPoolBegin(fail) ==
    /\ txn.pc = "idle"
    /\ txn.runs < MaxTx
    /\ LET err == PoolBegin(fail)
       IN  txn' = IF err # ""
                    THEN [NoTx EXCEPT !.runs = txn.runs + 1,
                                      !.ret = "failed to begin transaction"]
                    ELSE [NoTx EXCEPT !.runs = txn.runs + 1, !.pc = "fn",
                                      !.begun = TRUE, !.before = db]
    /\ UNCHANGED <<now, ticks, manager, store, issued, revoked, pc, cur, last, failed,
                   codecVars, db, conn>>

\* fn(tx) executes a statement on the transaction
FnWrite(row) ==
    /\ txn.pc = "fn"
    /\ row \notin txn.writes
    /\ txn' = [txn EXCEPT !.writes = @ \cup {row}]
    /\ UNCHANGED <<now, ticks, manager, store, issued, revoked, pc, cur, last, failed,
                   codecVars, db, conn>>

\* err = fn(tx)
FnReturn(err) ==
    /\ txn.pc = "fn"
    /\ txn' = [txn EXCEPT !.fnReturned = TRUE, !.fnErr = err, !.pc = AfterFn(err)]
    /\ UNCHANGED <<now, ticks, manager, store, issued, revoked, pc, cur, last, failed,
                   codecVars, db, conn>>

\* fn(tx) panics (PanicIfError and its kin, or any runtime panic): ExecTxPool has
\* no defer and no recover, the panic unwinds through it to whoever recovers
FnPanic ==
    /\ txn.pc = "fn"
    /\ txn' = [txn EXCEPT !.panicked = TRUE, !.pc = "idle"]
    /\ UNCHANGED <<now, ticks, manager, store, issued, revoked, pc, cur, last, failed,
                   codecVars, db, conn>>

\* the err != nil branch: tx.Rollback(ctx), return the error(s)
ExecTxPoolRollback(fail) ==
    /\ txn.pc = "rollback"
    /\ LET r == TxRollback(db, txn.writes, fail)
       IN  /\ db' = r.db
           /\ txn' = [txn EXCEPT !.rollbackCalled = TRUE, !.pc = "idle",
                                 !.ret = IF r.err # "" THEN "tx error, rb error"
                                                       ELSE txn.fnErr]
    /\ UNCHANGED <<now, ticks, manager, store, issued, revoked, pc, cur, last, failed,
                   codecVars, conn>>

\* tx.Commit(ctx), return its error or nil
ExecTxPoolCommit(fail) ==
    /\ txn.pc = "commit"
    /\ LET r == TxCommit(db, txn.writes, fail)
       IN  /\ db' = r.db
           /\ txn' = [txn EXCEPT !.commitCalled = TRUE, !.committed = (r.err = ""),
                                 !.pc = "idle",
                                 !.ret = IF r.err # "" THEN "failed to commit transaction"
                                                       ELSE ""]
    /\ UNCHANGED <<now, ticks, manager, store, issued, revoked, pc, cur, last, failed,
                   codecVars, conn>>

----------------------------------------------------------------------------
(* Specifications *)

Environment ==
    \/ \E h \in ExpiryHoursChoices : SetGlobalRedisTokenManager(h)
    \/ \E d \in TickSteps : Tick(d)

\* every operation of the session authority, as one caller uses it
CallerStep(c) ==
    \/ \E u \in Users : IssuePairGenerate(c, u)
    \/ \E tok \in Minted, fail \in BOOLEAN : RefreshValidate(c, tok, fail)
    \/ \E fail \in BOOLEAN : StoreAccess(c, fail)
    \/ \E fail \in BOOLEAN : StoreRefresh(c, fail)
    \/ \E tok \in Minted, fail \in BOOLEAN : ValidateAccess(c, tok, fail)
    \/ \E tok \in Minted : ValidateRefresh(c, tok, FALSE)
    \/ \E u \in Users, fail \in BOOLEAN : RevokeAllTokensAccess(c, u, fail)
    \/ \E fail \in BOOLEAN : RevokeAllTokensRefresh(c, fail)

\* one caller at a time: every call returns before the next one starts
Next == Environment \/ \E c \in SeqCallers : CallerStep(c)

Spec == Init /\ [][Next]_vars

\* concurrent issuance: the callers' store writes interleave, the store is up
IssueStep(c) ==
    \/ \E u \in Users : IssuePairGenerate(c, u)
    \/ StoreAccess(c, FALSE)
    \/ StoreRefresh(c, FALSE)
    \/ \E tok \in Minted : ValidateAccess(c, tok, FALSE)
    \/ \E tok \in Minted : ValidateRefresh(c, tok, FALSE)

NextConc == Environment \/ \E c \in Callers : IssueStep(c)

SpecConc == Init /\ [][NextConc]_vars

\* sign and verify on their own: credentials are minted at several clock
\* readings and presented, tampered with or not, before and after their expiry
NextCodec ==
    \/ \E h \in ExpiryHoursChoices : SetGlobalTokenClient(h)
    \/ \E h \in CodecExpiryHours : SetGlobalRedisTokenManager(h)
    \/ \E d \in CodecTickSteps : Tick(d)
    \/ \E u \in Users, ms \in Millis : GenerateTokenCall(u, ms)
    \/ \E u \in Users, cross \in Crossings : GenerateTokenPairCall(u, cross)
    \/ \E tok \in CodecPresentable : ValidateTokenCall(tok)
    \/ \E tok \in CodecPresentable : ParseJWTTokenCall(tok)

SpecCodec == Init /\ [][NextCodec]_vars

\* ExecTxPool calls, one after the other, with every outcome of the pool, of the
\* callback and of the transaction
NextTx ==
    \/ \E fail \in BOOLEAN : ExecTxPoolBegin(fail)
    \/ \E row \in Rows : FnWrite(row)
    \/ \E err \in {"", "fn: constraint violated"} : FnReturn(err)
    \/ FnPanic
    \/ \E fail \in BOOLEAN : ExecTxPoolRollback(fail)
    \/ \E fail \in BOOLEAN : ExecTxPoolCommit(fail)

SpecTx == Init /\ [][NextTx]_vars

\* the four store functions, called for two principals in any order
NextKeys ==
    \/ Environment
    \/ Restart
    \/ \E p \in Principals, fail \in BOOLEAN : StoreTokenInRedisCall(p, fail)
    \/ \E p \in Principals, fail \in BOOLEAN : StoreRefreshTokenInRedisCall(p, fail)
    \/ \E p \in Principals, fail \in BOOLEAN : RevokeTokenFromRedisCall(p, fail)
    \/ \E p \in Principals, fail \in BOOLEAN : RevokeRefreshTokenFromRedisCall(p, fail)

SpecKeys == Init /\ [][NextKeys]_vars

\* one step of the retry loop
ConnectStep ==
    \/ \E err \in OpenErrors : ConnectOpen(err)
    \/ \E err \in PingErrors : ConnectPing(err)
    \/ ConnectSleep

NextConnect ==
    \/ \E kind \in {"pool", "sql"} : ConnectStart(kind)
    \/ ConnectStep

\* a call that has started keeps running: every open, ping and sleep returns
SpecConnect == Init /\ [][NextConnect]_vars /\ WF_vars(ConnectStep)

----------------------------------------------------------------------------
(* Vocabulary of the properties *)

SessionRevoked == {"token not found in Redis - user may have logged out",
                   "refresh token not found - user may have logged out"}

SessionMismatch == {"token mismatch - invalid session",
                    "refresh token mismatch - invalid session"}

ExpiredErr == "invalid JWT token: token is expired"

Unexpired(tok) == now < tok.exp

SignatureVerifies(tok) ==
    /\ tok.segs = 3
    /\ tok.alg \in {"HS256", "HS384", "HS512"}
    /\ ~manager.isNil
    /\ tok.key = manager.secret

Stored(key, tok) == key \in DOMAIN store /\ store[key].val = tok

\* what a validation of tok would return in the current state, the store reachable
VA(tok) == ValidateTokenWithRedis(manager, store, tok, now, FALSE)
VR(tok) == ValidateRefreshToken(manager, store, tok, now, FALSE)

ClaimsOf(tok) == [UserID |-> tok.user_id, Username |-> tok.username]

AllIdle == \A c \in Callers : pc[c] = "idle"

Earlier == {i \in DOMAIN issued : i < Len(issued)}

----------------------------------------------------------------------------
(* C1..C10 *)

\* C1: validation returns claims only if the signature verifies under the manager's
\* secret, the credential is unexpired and it equals the value stored under the key
\* of its principal and of the validated kind; if one of the three fails (or the
\* store read fails) it returns an error and no claims.
C1_AcceptedOnlyIfAllThree ==
    \A tok \in Presentable, fail \in BOOLEAN :
      LET va == ValidateTokenWithRedis(manager, store, tok, now, fail)
          vr == ValidateRefreshToken(manager, store, tok, now, fail)
          verified == SignatureVerifies(tok) /\ Unexpired(tok)
      IN  /\ va.err = "" => /\ verified
                            /\ Stored(AccessKey(tok.user_id), tok)
                            /\ va.claims = ClaimsOf(tok)
          /\ vr.err = "" => /\ verified
                            /\ Stored(RefreshKey(tok.user_id), tok)
                            /\ vr.claims = ClaimsOf(tok)
          /\ ~(verified /\ Stored(AccessKey(tok.user_id), tok)) =>
                va.err # "" /\ va.claims = NilClaims
          /\ ~(verified /\ Stored(RefreshKey(tok.user_id), tok)) =>
                vr.err # "" /\ vr.claims = NilClaims

\* an access validation has returned claims while a forged copy of the same
\* credential and an older credential of the user are around
C1_Witness ==
    /\ last.op = "ValidateAccess"
    /\ last.err = ""
    /\ last.claims = ClaimsOf(last.tok)
    /\ \E i \in DOMAIN issued : issued[i].access # last.tok

\* C2 as stated: after a second successful IssuePair for a user, the credentials of
\* every earlier successful IssuePair fail with SessionMismatch and the new ones validate.
C2_Supersession_AsStated ==
    (last.op = "IssuePair" /\ last.err = "") =>
      \A i \in Earlier :
        (issued[i].ok /\ issued[i].flow = "IssuePair" /\ issued[i].user = last.user) =>
          /\ VA(issued[i].access).err \in SessionMismatch
          /\ VR(issued[i].refresh).err \in SessionMismatch
          /\ VA(last.access).err = ""
          /\ VR(last.refresh).err = ""

\* C2 amended: after a successful IssuePair, the new credentials validate while
\* unexpired, and every credential minted earlier for the user that is a different
\* string and still unexpired fails with SessionMismatch.
C2_Supersession ==
    (last.op = "IssuePair" /\ last.err = "") =>
      /\ Unexpired(last.access) => VA(last.access).err = ""
      /\ Unexpired(last.refresh) => VR(last.refresh).err = ""
      /\ \A i \in Earlier :
           issued[i].user = last.user =>
             /\ (issued[i].access # last.access /\ Unexpired(issued[i].access)) =>
                   VA(issued[i].access).err \in SessionMismatch
             /\ (issued[i].refresh # last.refresh /\ Unexpired(issued[i].refresh)) =>
                   VR(issued[i].refresh).err \in SessionMismatch

C2_Witness ==
    /\ last.op = "IssuePair"
    /\ last.err = ""
    /\ \E i \in Earlier :
         /\ issued[i].ok
         /\ issued[i].flow = "IssuePair"
         /\ issued[i].user = last.user
         /\ issued[i].access # last.access
         /\ Unexpired(issued[i].access)

\* C3 as stated: while a user is revoked (RevokeAllTokens succeeded, no store write
\* since), both validations of every credential issued to the user fail with
\* SessionRevoked.
C3_Revocation_AsStated ==
    \A i \in DOMAIN issued :
      (issued[i].ok /\ issued[i].user \in revoked) =>
        \A tok \in {issued[i].access, issued[i].refresh} :
          /\ VA(tok).err \in SessionRevoked
          /\ VR(tok).err \in SessionRevoked

\* C3 amended: while a user is revoked, both validations of every credential minted
\* for the user fail: with SessionRevoked while the credential is unexpired, with
\* the expiry error of verification once it has expired.
C3_Revocation ==
    \A i \in DOMAIN issued :
      issued[i].user \in revoked =>
        \A tok \in {issued[i].access, issued[i].refresh} :
          IF Unexpired(tok)
            THEN VA(tok).err \in SessionRevoked /\ VR(tok).err \in SessionRevoked
            ELSE VA(tok).err = ExpiredErr /\ VR(tok).err = ExpiredErr

C3_Witness ==
    /\ last.op = "ValidateAccess"
    /\ last.err \in SessionRevoked
    /\ last.user \in revoked
    /\ \E i \in DOMAIN issued : issued[i].ok /\ issued[i].access = last.tok

\* C4: when GenerateTokenPair (IssuePair) has returned a pair without error, both
\* session records of the user exist and equal the returned credentials.
C4_ReturnAfterBothWrites ==
    (last.op = "GenerateTokenPair" /\ last.err = "") =>
      /\ Stored(AccessKey(last.user), last.access)
      /\ Stored(RefreshKey(last.user), last.refresh)

\* C5: for every user, at most one credential passes access validation and at most
\* one passes refresh validation.
C5_AtMostOneLive ==
    \A u \in Users :
      /\ Cardinality({tok \in Presentable : tok.user_id = u /\ VA(tok).err = ""}) <= 1
      /\ Cardinality({tok \in Presentable : tok.user_id = u /\ VR(tok).err = ""}) <= 1

\* two different unexpired refresh credentials of one user, one of them accepted
C5_Witness ==
    \E i, j \in DOMAIN issued :
      /\ issued[i].ok /\ issued[j].ok
      /\ issued[i].user = issued[j].user
      /\ issued[i].refresh # issued[j].refresh
      /\ Unexpired(issued[i].refresh)
      /\ VR(issued[j].refresh).err = ""
      /\ VA(issued[j].access).err = ""

\* C6 as stated: after Refresh(R) has succeeded, a second Refresh(R) fails with
\* SessionMismatch.
C6_Rotation_AsStated ==
    (last.op = "Refresh" /\ last.err = "") => VR(last.tok).err \in SessionMismatch

\* C6 amended: after Refresh(R) has succeeded with the pair (A2, R2), the refresh
\* record is R2; if R2 is a different string from R (it was minted in a later
\* second) and R is unexpired, a second Refresh(R) fails with SessionMismatch, and
\* no later Refresh(R) succeeds.
C6_Rotation ==
    (last.op = "Refresh" /\ last.err = "") =>
      /\ Stored(RefreshKey(last.user), last.refresh)
      /\ (last.tok # last.refresh /\ Unexpired(last.tok)) =>
            VR(last.tok).err \in SessionMismatch
      /\ \A i \in Earlier :
           ~(issued[i].ok /\ issued[i].old = last.tok /\ issued[i].refresh # last.tok)

\* a second Refresh(R) has just failed with SessionMismatch
C6_Witness ==
    /\ last.op = "Refresh"
    /\ last.err \in SessionMismatch
    /\ \E i \in DOMAIN issued : issued[i].ok /\ issued[i].old = last.tok

\* C7 as stated: after IssuePair returned (A, R) and Refresh(R) returned (A2, R2),
\* access validation of A succeeds while A is unexpired.
C7_AccessSurvivesRefresh_AsStated ==
    (last.op = "Refresh" /\ last.err = "") =>
      \A i \in DOMAIN issued :
        (issued[i].ok /\ issued[i].refresh = last.tok /\ Unexpired(issued[i].access)) =>
          VA(issued[i].access).err = ""

\* C7 amended: Refresh stores the new access credential A2 too; while A is
\* unexpired, access validation of A succeeds only if A2 is the same string as A
\* (minted in the same second), and otherwise fails with SessionMismatch.
C7_AccessSupersededByRefresh ==
    (last.op = "Refresh" /\ last.err = "") =>
      \A i \in DOMAIN issued :
        (issued[i].ok /\ issued[i].refresh = last.tok /\ Unexpired(issued[i].access)) =>
          IF issued[i].access = last.access
            THEN VA(issued[i].access).err = ""
            ELSE VA(issued[i].access).err \in SessionMismatch

C7_Witness ==
    /\ last.op = "Refresh"
    /\ last.err = ""
    /\ \E i \in DOMAIN issued :
         /\ issued[i].ok
         /\ issued[i].refresh = last.tok
         /\ issued[i].access # last.access
         /\ Unexpired(issued[i].access)

\* C8 as stated: once two concurrent IssuePair calls for a user have both completed,
\* one of them is the winner and the other the loser: the winner's credentials
\* validate and the loser's fail with SessionMismatch, for both kinds.
C8_ConcurrentIssue_AsStated ==
    (/\ AllIdle
     /\ last.op = "IssuePair"
     /\ last.err = ""
     /\ Len(issued) = 2
     /\ issued[1].ok /\ issued[2].ok
     /\ issued[1].user = issued[2].user) =>
      \E w \in 1..2 :
        /\ VA(issued[w].access).err = ""
        /\ VR(issued[w].refresh).err = ""
        /\ VA(issued[3 - w].access).err \in SessionMismatch
        /\ VR(issued[3 - w].refresh).err \in SessionMismatch

\* C8 amended: once the concurrent IssuePair calls have completed, for each kind
\* the record holds the credential written last; an unexpired returned credential
\* validates if it is that string and fails with SessionMismatch otherwise.  The
\* winner is decided per kind.
C8_ConcurrentIssue ==
    (AllIdle /\ last.op = "IssuePair" /\ last.err = "") =>
      /\ Stored(RefreshKey(last.user), last.refresh)
      /\ \A i \in DOMAIN issued :
        issued[i].ok =>
          /\ Unexpired(issued[i].access) =>
               /\ \E j \in DOMAIN issued :
                    /\ issued[j].ok
                    /\ Stored(AccessKey(issued[i].user), issued[j].access)
               /\ IF Stored(AccessKey(issued[i].user), issued[i].access)
                    THEN VA(issued[i].access).err = ""
                    ELSE VA(issued[i].access).err \in SessionMismatch
          /\ Unexpired(issued[i].refresh) =>
               /\ \E j \in DOMAIN issued :
                    /\ issued[j].ok
                    /\ Stored(RefreshKey(issued[i].user), issued[j].refresh)
               /\ IF Stored(RefreshKey(issued[i].user), issued[i].refresh)
                    THEN VR(issued[i].refresh).err = ""
                    ELSE VR(issued[i].refresh).err \in SessionMismatch

\* both calls have completed; the access record is the one call's, the refresh
\* record the other's
C8_Witness ==
    /\ AllIdle
    /\ last.op = "IssuePair"
    /\ last.err = ""
    /\ \E i, j \in DOMAIN issued :
         /\ issued[i].ok /\ issued[j].ok
         /\ issued[i].user = issued[j].user
         /\ issued[i].access # issued[j].access
         /\ Unexpired(issued[i].access) /\ Unexpired(issued[j].access)
         /\ Stored(AccessKey(issued[i].user), issued[i].access)
         /\ Stored(RefreshKey(issued[i].user), issued[j].refresh)
         /\ VA(issued[j].access).err \in SessionMismatch

\* C9 as stated: a successful RevokeAllTokens has deleted both records, and
\* RevokeAllTokens returns an error only when a store operation has failed.
C9_Revoke_AsStated ==
    last.op = "RevokeAllTokens" =>
      /\ last.err = "" => /\ AccessKey(last.user) \notin DOMAIN store
                          /\ RefreshKey(last.user) \notin DOMAIN store
      /\ last.err # "" => last.fail

\* C9 amended: a successful RevokeAllTokens has deleted both records, and
\* RevokeAllTokens returns an error exactly when a store operation has failed or
\* the global manager has not been set; with the manager set and the store up it
\* succeeds whether or not the records exist.
C9_Revoke ==
    last.op = "RevokeAllTokens" =>
      /\ last.err = "" => /\ AccessKey(last.user) \notin DOMAIN store
                          /\ RefreshKey(last.user) \notin DOMAIN store
      /\ last.err # "" <=> (last.fail \/ manager.isNil)

\* RevokeAllTokens has succeeded for a user whose IssuePair had completed
C9_Witness ==
    /\ last.op = "RevokeAllTokens"
    /\ last.err = ""
    /\ last.user \in revoked
    /\ \E i \in DOMAIN issued : issued[i].ok /\ issued[i].user = last.user

\* C10: the TTL of every session record equals the lifetime of the credential it
\* holds, and the record expires exactly when the credential does.
C10_TTLEqualsLifetime ==
    \A k \in DOMAIN store :
      /\ store[k].ttl = store[k].val.exp - store[k].val.iat
      /\ store[k].at + store[k].ttl = store[k].val.exp

----------------------------------------------------------------------------
(* C11..C20 *)

\* an IssuePair for the user of the half-failed attempt has completed since
Retried == failed.retried

\* the retry is the call that has just returned
RetryReturned ==
    /\ last.op = "IssuePair"
    /\ last.err = ""
    /\ Retried
    /\ failed.user = last.user

\* C11 as stated: when the retry of a half-failed IssuePair has completed, both
\* records equal the retry's credentials (as long as these have not expired), and
\* from then until the caller's next issuance or revocation no credential of the
\* failed attempt validates.
C11_RetrySupersedes_AsStated ==
    /\ RetryReturned =>
         /\ Unexpired(last.access) => Stored(AccessKey(last.user), last.access)
         /\ Unexpired(last.refresh) => Stored(RefreshKey(last.user), last.refresh)
    /\ Retried => /\ VA(failed.access).err # ""
                  /\ VR(failed.refresh).err # ""

\* C11 amended: when the retry has completed, both records equal the retry's
\* credentials (as long as these have not expired), and a credential of the
\* failed attempt that is a different string and unexpired fails with
\* SessionMismatch; from then until the caller's next issuance or revocation a
\* credential of the failed attempt validates only if a completed issuance has
\* returned the very same string.
C11_RetrySupersedes ==
    /\ RetryReturned =>
         /\ Unexpired(last.access) => Stored(AccessKey(last.user), last.access)
         /\ Unexpired(last.refresh) => Stored(RefreshKey(last.user), last.refresh)
         /\ (failed.access # last.access /\ Unexpired(failed.access)) =>
               VA(failed.access).err \in SessionMismatch
         /\ (failed.refresh # last.refresh /\ Unexpired(failed.refresh)) =>
               VR(failed.refresh).err \in SessionMismatch
    /\ Retried =>
         /\ VA(failed.access).err = "" =>
               \E i \in DOMAIN issued : /\ issued[i].ok
                                         /\ issued[i].user = failed.user
                                         /\ issued[i].access = failed.access
         /\ VR(failed.refresh).err = "" =>
               \E i \in DOMAIN issued : /\ issued[i].ok
                                         /\ issued[i].user = failed.user
                                         /\ issued[i].refresh = failed.refresh
         /\ VA(failed.refresh).err # ""
         /\ VR(failed.access).err # ""

\* the retry has just returned, a second later than the attempt whose refresh
\* write failed, and the access credential of that attempt is unexpired
C11_Witness ==
    /\ RetryReturned
    /\ failed.access # last.access
    /\ failed.refresh # last.refresh
    /\ Unexpired(failed.access)
    /\ VA(failed.access).err \in SessionMismatch

\* the record under key k is created, or its value is replaced, by the step
Written(k) == k \in DOMAIN store' /\ (k \notin DOMAIN store \/ store'[k].val # store[k].val)

\* the record under key k is removed by the step
Removed(k) == k \in DOMAIN store /\ k \notin DOMAIN store'

\* the steps a session record may take
RecordStep(u) ==
    /\ Written(AccessKey(u)) =>
          /\ last'.op = "StoreTokenInRedis"
          /\ last'.err = ""
          /\ store'[AccessKey(u)].val = last'.tok
          /\ last'.tok.type = "access"
    /\ Written(RefreshKey(u)) =>
          /\ last'.op \in {"IssuePair", "Refresh"}
          /\ last'.err = ""
          /\ store'[RefreshKey(u)].val = last'.refresh
          /\ last'.refresh.type = "refresh"
    /\ Removed(AccessKey(u)) =>
          \/ last'.op = "RevokeTokenFromRedis" /\ last'.user = u /\ last'.err = ""
          \/ last'.op = "Tick" /\ Expired(store[AccessKey(u)], now')
    /\ Removed(RefreshKey(u)) =>
          \/ last'.op = "RevokeAllTokens" /\ last'.user = u /\ last'.err = ""
          \/ last'.op = "Tick" /\ Expired(store[RefreshKey(u)], now')

\* C12: a session record is created or replaced only by an issuance writing the
\* credential of its kind, and removed only by a revoke or by its TTL running out;
\* validation, and every call that returns an error, leaves the records as they
\* were.
C12_RecordTransitions ==
    [][/\ \A u \in Users : RecordStep(u)
       /\ DOMAIN store' \subseteq {AccessKey(u) : u \in Users} \cup
                                  {RefreshKey(u) : u \in Users}
       /\ last'.op \in {"ValidateAccess", "ValidateRefresh"} => store' = store
       /\ last'.err # "" => store' = store]_vars

\* both records of an issued pair have gone by TTL expiry, without a revoke
C12_Witness ==
    /\ last.op = "Tick"
    /\ revoked = {}
    /\ DOMAIN store = {}
    /\ \E i \in DOMAIN issued : issued[i].ok

StoreUnavailable == {"Redis error: redis: connection refused"}

\* the outcome of a validation of the verified credential tok against the record
\* under key, by cause
ByCause(v, key, tok, fail) ==
    /\ fail => v.err \in StoreUnavailable /\ v.claims = NilClaims
    /\ (~fail /\ key \notin DOMAIN store) => v.err \in SessionRevoked
    /\ (~fail /\ key \in DOMAIN store /\ store[key].val # tok) =>
          v.err \in SessionMismatch
    /\ v.err \in SessionRevoked => ~fail /\ key \notin DOMAIN store
    /\ v.err \in SessionMismatch => ~fail /\ key \in DOMAIN store
    /\ v.err = "" => ~fail

\* C13: for a verified credential, validation reports an absent record as
\* SessionRevoked, a record holding another string as SessionMismatch and a failed
\* store read as StoreUnavailable; a failed read is never reported as
\* SessionRevoked, as SessionMismatch or as success.
C13_OutcomeByCause ==
    ~manager.isNil =>
      \A tok \in Presentable, fail \in BOOLEAN :
        (SignatureVerifies(tok) /\ Unexpired(tok)) =>
          /\ ByCause(ValidateToken(manager, store, tok, now, fail),
                     AccessKey(tok.user_id), tok, fail)
          /\ ByCause(ValidateRefreshToken(manager, store, tok, now, fail),
                     RefreshKey(tok.user_id), tok, fail)

\* the store read failed while the live access credential was being validated
C13_Witness ==
    /\ last.op = "ValidateAccess"
    /\ last.fail
    /\ last.err \in StoreUnavailable
    /\ SignatureVerifies(last.tok) /\ Unexpired(last.tok)
    /\ Stored(AccessKey(last.user), last.tok)

HMAC == {"HS256", "HS384", "HS512"}

\* a well-formed credential whose exp is not in the future
PastExpiry(tok) == tok.segs = 3 /\ ~(now < tok.exp)

\* verify as the token client and as the Redis token manager do it
VerifyClient(tok) == TokenClientValidateToken(client, tok, now)
VerifyManager(tok) == parseJWTToken(manager, tok, now)

\* C14 as stated: verify of a credential whose exp has passed fails with Expired,
\* whether its signature is valid or not.
C14_Expiry_AsStated ==
    \A tok \in CodecPresentable :
      (PastExpiry(tok) /\ tok.alg \in HMAC) =>
        /\ ~client.isNil => VerifyClient(tok).err = "token is expired"
        /\ ~manager.isNil => VerifyManager(tok).err = "token is expired"

\* C14 amended: verify of a credential whose exp has passed never returns claims;
\* it fails with Expired exactly when the algorithm is HMAC and the signature
\* verifies, and with the error of the earlier check otherwise.
C14_Expiry ==
    \A tok \in CodecPresentable :
      PastExpiry(tok) =>
        /\ ~client.isNil =>
              LET v == VerifyClient(tok)
              IN  /\ v.err # "" /\ v.claims = NilClaims
                  /\ v.err = "token is expired" <=>
                        (tok.alg \in HMAC /\ tok.key = client.secret)
                  /\ (tok.alg \in HMAC /\ tok.key # client.secret) =>
                        v.err = "signature is invalid"
        /\ ~manager.isNil =>
              LET v == VerifyManager(tok)
              IN  /\ v.err # "" /\ v.claims = NilClaims
                  /\ v.err = "token is expired" <=>
                        (tok.alg \in HMAC /\ tok.key = manager.secret)
                  /\ (tok.alg \in HMAC /\ tok.key # manager.secret) =>
                        v.err = "signature is invalid"

\* a credential the token client signed has been verified at or after its exp
C14_Witness ==
    /\ last.op = "ValidateToken"
    /\ last.tok \in CodecHeld
    /\ PastExpiry(last.tok)
    /\ last.err = "token is expired"

UnexpectedAlgorithm == "unexpected signing method"

Keys == {Secret, OtherSecret, ""}

\* C15: a credential whose algorithm tag is not HMAC is never accepted; if it is
\* well-formed it is rejected with UnexpectedAlgorithm, and the outcome is the same
\* whatever key its signature was made with and whatever the verifier's secret is.
C15_AlgorithmConfusion ==
    \A tok \in CodecPresentable :
      tok.alg \notin HMAC =>
        /\ ~client.isNil =>
              LET v == VerifyClient(tok)
              IN  /\ v.err # "" /\ v.claims = NilClaims
                  /\ tok.segs = 3 => v.err = UnexpectedAlgorithm
                  /\ \A k \in Keys :
                        /\ TokenClientValidateToken(client, [tok EXCEPT !.key = k], now) = v
                        /\ TokenClientValidateToken(NewToken(k, client.expiryHours),
                                                    tok, now) = v
        /\ ~manager.isNil =>
              LET v == VerifyManager(tok)
              IN  /\ v.err # "" /\ v.claims = NilClaims
                  /\ tok.segs = 3 => v.err = UnexpectedAlgorithm
                  /\ \A k \in Keys :
                        /\ parseJWTToken(manager, [tok EXCEPT !.key = k], now) = v
                        /\ parseJWTToken(NewRedisTokenManager(k, manager.expiryHours),
                                         tok, now) = v

\* an unexpired credential with the payload of a signed one, the tag RS256 and a
\* signature made with the verifier's secret has been rejected
C15_Witness ==
    /\ last.op = "ValidateToken"
    /\ ~client.isNil
    /\ last.tok.alg = "RS256"
    /\ last.tok.key = client.secret
    /\ Unexpired(last.tok)
    /\ last.err = UnexpectedAlgorithm

\* the calls of sign whose credential the token client can still verify
RoundTrips == {i \in DOMAIN signed : /\ ~client.isNil
                                      /\ signed[i].secret = client.secret
                                      /\ now < signed[i].Token.exp}

\* the claims that went into the credential, iat left out
SignedClaims(tok) == [UserID |-> tok.user_id, Username |-> tok.username,
                      type |-> tok.type, exp |-> tok.exp]

C17_LifetimePolicy ==
    (last.op = "GenerateTokenPair" /\ last.err = "") =>
      /\ last.access.exp - last.access.iat = 15 * 60
      /\ last.access.exp - last.access.iat =
            GenerateTokenPair(manager, [UserID |-> last.user,
                                        Username |-> UsernameOf(last.user)],
                              Readings(now, 0)).ExpiresIn
      /\ last.refresh.exp - last.refresh.iat = 7 * 24 * 3600

\* two calls of sign with identical claims and the same secret
SameInput(i, j) ==
    /\ signed[i].req = signed[j].req
    /\ signed[i].secret = signed[j].secret
    /\ signed[i].expiryHours = signed[j].expiryHours

StoreCalls == {"IssuePair", "Refresh", "RevokeAllTokens", "ValidateAccess",
               "ValidateRefresh"}

\* a result that reports a failure: an error, and neither claims nor a credential
Refused(r) == r.err # "" /\ r.claims = NilClaims

TxReturned == txn.pc = "idle" /\ txn.fnReturned

\* C20: ExecTxPool calls Commit exactly when fn returned nil and Rollback exactly
\* when fn returned an error; after an error of fn nothing is committed, the rows
\* are those from before the call and ExecTxPool returns an error; after a nil of
\* fn ExecTxPool never rolls back, and it returns nil exactly when the commit went
\* through.
C20_CommitIffNil ==
    /\ txn.commitCalled => txn.fnReturned /\ txn.fnErr = ""
    /\ txn.rollbackCalled => txn.fnReturned /\ txn.fnErr # ""
    /\ txn.committed => txn.commitCalled
    /\ (TxReturned /\ txn.fnErr = "") =>
          /\ txn.commitCalled /\ ~txn.rollbackCalled
          /\ (txn.ret = "") <=> txn.committed
          /\ db = IF txn.committed THEN txn.before \cup txn.writes ELSE txn.before
    /\ (TxReturned /\ txn.fnErr # "") =>
          /\ txn.rollbackCalled /\ ~txn.commitCalled /\ ~txn.committed
          /\ txn.ret # ""
          /\ db = txn.before
    /\ (txn.pc = "idle" /\ txn.runs > 0 /\ ~txn.begun) =>
          /\ ~txn.fnReturned /\ txn.writes = {}
          /\ txn.ret = "failed to begin transaction"

\* fn wrote a row and returned an error in the second call, after a first call
\* had committed a row: the second call was rolled back and returned the error
C20_Witness ==
    /\ TxReturned
    /\ txn.runs = 2
    /\ txn.fnErr # ""
    /\ txn.rollbackCalled
    /\ txn.ret = txn.fnErr
    /\ txn.writes # {}
    /\ txn.before # {}
    /\ ~(txn.writes \subseteq txn.before)

----------------------------------------------------------------------------
(* C21..C29 *)

\* credentials signed with the manager's secret whose user_id or username claim is
\* missing
Unclaimed(tok) == {[tok EXCEPT !.user_id = Absent], [tok EXCEPT !.username = Absent]}

Verifiable == Presentable \cup UNION {Unclaimed(tok) : tok \in Known}

\* C21: a credential that fails verification (malformed, wrong algorithm, bad
\* signature, expired, user_id or username missing) is refused by ValidateToken
\* and ValidateRefreshToken with the verification error and without a store read,
\* whether the store is up or not; a verified credential causes one read, of the
\* key built from the UserID of the verified claims.
C21_VerifyBeforeRead ==
    /\ ~manager.isNil =>
         \A tok \in Verifiable, fail \in BOOLEAN :
            LET p  == parseJWTToken(manager, tok, now)
                va == ValidateTokenWithRedis(manager, store, tok, now, fail)
                vr == ValidateRefreshToken(manager, store, tok, now, fail)
            IN  IF p.err # ""
                  THEN /\ va.reads = <<>> /\ vr.reads = <<>>
                       /\ va.err = "invalid JWT token: " \o p.err
                       /\ vr.err = "invalid JWT token: " \o p.err
                  ELSE /\ va.reads = <<AccessKey(p.claims.UserID)>>
                       /\ vr.reads = <<RefreshKey(p.claims.UserID)>>
                       /\ p.claims.UserID = tok.user_id
    /\ (last.op \in {"ValidateAccess", "ValidateRefresh"} /\ ~manager.isNil
          /\ parseJWTToken(manager, last.tok, now).err # "") =>
         last.err = "invalid JWT token: " \o parseJWTToken(manager, last.tok, now).err

\* an expired credential has been presented while the store was down: the caller
\* got the verification error, not a store error
C21_Witness ==
    /\ last.op = "ValidateAccess"
    /\ last.fail
    /\ last.tok \in Minted
    /\ last.err = "invalid JWT token: token is expired"

\* C22: ValidateToken and ValidateRefreshToken leave the keyspace as it was, values
\* and TTLs, for every credential that can be presented, with the store up or
\* down, on success and on every failure: no record is created, overwritten or
\* deleted, and no record's TTL or write time changes.
C22_ValidationReadOnly ==
    \A tok \in Verifiable, fail \in BOOLEAN :
       /\ ValidateTokenWithRedis(manager, store, tok, now, fail).store = store
       /\ ValidateRefreshToken(manager, store, tok, now, fail).store = store

\* an access credential has been accepted a second or more after it was stored:
\* its record still carries the time of the write
C22_Witness ==
    /\ last.op = "ValidateAccess"
    /\ last.err = ""
    /\ AccessKey(last.user) \in DOMAIN store
    /\ store[AccessKey(last.user)].val = last.tok
    /\ store[AccessKey(last.user)].at < now

\* the keyspaces st and st2 agree on every key but key
Untouched(st, st2, key) ==
    \A k \in (DOMAIN st \cup DOMAIN st2) \ {key} :
       k \in DOMAIN st /\ k \in DOMAIN st2 /\ st2[k] = st[k]

\* the credentials of both principals at the present clock reading
PairTokens == UNION {{PairOf(p).AccessToken, PairOf(p).RefreshToken} : p \in Principals}

\* C23: StoreToken and RevokeToken for p change at most the key "token:"+p,
\* StoreRefreshTokenInRedis and RevokeRefreshTokenFromRedis for p at most the key
\* "refresh_token:"+p: every record of the other kind and every record of another
\* principal is left as it was, and the keys of distinct (principal, kind) differ.
C23_KeySeparation ==
    /\ \A p \in Principals, tok \in PairTokens, fail \in BOOLEAN :
         /\ Untouched(store, StoreTokenInRedis(manager, store, p, tok, now, fail).store,
                      AccessKey(p))
         /\ Untouched(store, RevokeTokenFromRedis(manager, store, p, fail).store,
                      AccessKey(p))
         /\ Untouched(store,
                      StoreRefreshTokenInRedis(manager, store, p, tok, now, fail).store,
                      RefreshKey(p))
         /\ Untouched(store, RevokeRefreshTokenFromRedis(manager, store, p, fail).store,
                      RefreshKey(p))
         /\ ~manager.isNil =>
               LET w == StoreTokenInRedis(manager, store, p, tok, now, FALSE).store
                   r == StoreRefreshTokenInRedis(manager, store, p, tok, now, FALSE).store
               IN  /\ AccessKey(p) \in DOMAIN w /\ w[AccessKey(p)].val = tok
                   /\ RefreshKey(p) \in DOMAIN r /\ r[RefreshKey(p)].val = tok
                   /\ AccessKey(p) \notin
                         DOMAIN RevokeTokenFromRedis(manager, store, p, FALSE).store
                   /\ RefreshKey(p) \notin
                         DOMAIN RevokeRefreshTokenFromRedis(manager, store, p, FALSE).store
    /\ \A p, q \in Principals :
         /\ AccessKey(p) # RefreshKey(q)
         /\ p # q => AccessKey(p) # AccessKey(q) /\ RefreshKey(p) # RefreshKey(q)
    /\ AccessKey("u1") = "token:u1" /\ RefreshKey("u1") = "refresh_token:u1"

\* all four records existed and the access session of u1 has been revoked: the
\* other three records are still there
C23_Witness ==
    /\ last.op = "RevokeTokenFromRedis"
    /\ last.user = "u1"
    /\ last.err = ""
    /\ AccessKey("u1") \notin DOMAIN store
    /\ {RefreshKey("u1"), AccessKey("u2"), RefreshKey("u2")} \subseteq DOMAIN store

\* C24: with every credential stored under the key of its own kind (IssuePair and
\* Refresh), no refresh credential passes ValidateToken and no access credential
\* passes ValidateRefreshToken, whatever the records hold at the time; and the
\* record of a kind only ever holds a credential of that kind.
C24_KindConfusion ==
    /\ \A tok \in Known :
         /\ tok.type = "refresh" => VA(tok).err # ""
         /\ tok.type = "access" => VR(tok).err # ""
    /\ \A u \in Users :
         /\ AccessKey(u) \in DOMAIN store => store[AccessKey(u)].val.type = "access"
         /\ RefreshKey(u) \in DOMAIN store => store[RefreshKey(u)].val.type = "refresh"
    /\ (last.op = "ValidateAccess" /\ last.tok.type = "refresh") => last.err # ""
    /\ (last.op \in {"ValidateRefresh", "Refresh"} /\ last.tok.type = "access") =>
         last.err # ""

\* a live refresh credential has been presented to the access validation while
\* both records of its user were in the store: it was refused as a mismatch
C24_Witness ==
    /\ last.op = "ValidateAccess"
    /\ last.tok.type = "refresh"
    /\ Stored(RefreshKey(last.user), last.tok)
    /\ AccessKey(last.user) \in DOMAIN store
    /\ last.err = "token mismatch - invalid session"

\* C25: once two issuances for the same principal have both written their access
\* and their refresh credential, in any interleaving, the access record and the
\* refresh record in the store are those of one and the same issuance.
C25_PairConsistency ==
    (/\ AllIdle
     /\ Len(issued) = 2
     /\ issued[1].ok /\ issued[2].ok
     /\ issued[1].user = issued[2].user
     /\ issued[1].flow = "IssuePair" /\ issued[2].flow = "IssuePair"
     /\ AccessKey(issued[1].user) \in DOMAIN store
     /\ RefreshKey(issued[1].user) \in DOMAIN store) =>
      \E i \in 1..2 :
        /\ Stored(AccessKey(issued[i].user), issued[i].access)
        /\ Stored(RefreshKey(issued[i].user), issued[i].refresh)

\* the step is a RevokeAllTokens call of c that returns from its first statement
FirstDeleteFails(c) == pc[c] = "idle" /\ pc'[c] = "idle" /\ last'.op = "RevokeAllTokens"

\* the step is the first statement of a RevokeAllTokens call of c going through
FirstDeleteDone(c) == pc[c] = "idle" /\ pc'[c] = "revokeRefresh"

\* C26: RevokeAllTokens deletes "token:"+u first and "refresh_token:"+u second.
\* When the first delete fails the call returns that error at once: the refresh
\* delete is not attempted, the keyspace is as before, and every refresh
\* credential that validated before the call validates after it.  The refresh
\* record is only deleted by the second statement, once the access record is gone.
C26_RevokeAccessFirst ==
    [][\A c \in SeqCallers :
         /\ FirstDeleteFails(c) =>
               /\ last'.err = RevokeTokenFromRedis(manager, store, last'.user,
                                                   last'.fail).err
               /\ last'.err # ""
               /\ store' = store
               /\ \A tok \in Known :
                     VR(tok).err = "" =>
                        ValidateRefreshToken(manager', store', tok, now', FALSE).err = ""
         /\ FirstDeleteDone(c) =>
               /\ AccessKey(cur'[c].user) \notin DOMAIN store'
               /\ RefreshKey(cur'[c].user) \in DOMAIN store =>
                     /\ RefreshKey(cur'[c].user) \in DOMAIN store'
                     /\ store'[RefreshKey(cur'[c].user)] = store[RefreshKey(cur'[c].user)]
         /\ Removed(RefreshKey(last'.user)) /\ last'.op = "RevokeAllTokens" =>
               /\ pc[c] = "revokeRefresh"
               /\ AccessKey(last'.user) \notin DOMAIN store]_vars

\* RevokeAllTokens has failed at its first delete while both records of the user
\* were in the store: both are still there and the refresh credential validates
C26_Witness ==
    /\ last.op = "RevokeAllTokens"
    /\ last.fail
    /\ last.err # ""
    /\ AccessKey(last.user) \in DOMAIN store
    /\ RefreshKey(last.user) \in DOMAIN store
    /\ VR(store[RefreshKey(last.user)].val).err = ""

\* C27: while globalRedisTokenManager is nil, every package-level function on it
\* returns "Redis token manager not initialized", no claims and no credential,
\* reads no key and leaves the keyspace as it is, whether the store is up or down;
\* while globalTokenClient is nil, ValidateToken and GenerateToken return "token
\* client not initialized", no claims and no credential.
C27_NotInitialized ==
    /\ manager.isNil =>
         \A p \in Principals, tok \in Verifiable \cup {NoToken}, fail \in BOOLEAN :
            /\ LET g == GenerateTokenPair(manager, [UserID |-> p, Username |-> UsernameOf(p)],
                                          Readings(now, 0))
               IN  /\ g.err = NotInitialized
                   /\ g.AccessToken = NoToken /\ g.RefreshToken = NoToken
            /\ \A v \in {ValidateTokenWithRedis(manager, store, tok, now, fail),
                          ValidateRefreshToken(manager, store, tok, now, fail)} :
                  /\ v.err = NotInitialized
                  /\ v.claims = NilClaims
                  /\ v.reads = <<>>
                  /\ v.store = store
            /\ \A w \in {StoreTokenInRedis(manager, store, p, tok, now, fail),
                          StoreRefreshTokenInRedis(manager, store, p, tok, now, fail),
                          RevokeTokenFromRedis(manager, store, p, fail),
                          RevokeRefreshTokenFromRedis(manager, store, p, fail),
                          RevokeAllTokens(manager, store, p, fail, FALSE),
                          RevokeAllTokens(manager, store, p, fail, TRUE)} :
                  /\ w.err = NotInitialized
                  /\ w.store = store
    /\ client.isNil =>
         \A p \in Principals, tok \in Verifiable \cup {NoToken} :
            /\ LET v == GlobalValidateToken(client, tok, now)
               IN  v.err = ClientNotInitialized /\ v.claims = NilClaims
            /\ LET g == GenerateToken(client, [UserID |-> p, Username |-> UsernameOf(p)],
                                      <<Reading(now, 0), Reading(now, 0)>>)
               IN  g.err = ClientNotInitialized /\ g.Token = NoToken
    /\ (manager.isNil /\ last.op \in {"StoreTokenInRedis", "StoreRefreshTokenInRedis",
                                      "RevokeTokenFromRedis",
                                      "RevokeRefreshTokenFromRedis"}) =>
         last.err = NotInitialized

\* the process has started again with records of both kinds in Redis, and a store
\* function has been called before the manager was set
C27_Witness ==
    /\ manager.isNil
    /\ last.op = "StoreTokenInRedis"
    /\ last.err = NotInitialized
    /\ \E p \in Principals : {AccessKey(p), RefreshKey(p)} \subseteq DOMAIN store

\* control has left the last ExecTxPool call
TxLeft == txn.pc = "idle" /\ txn.runs > 0

\* C28: when control has left ExecTxPool, a transaction that Begin returned has
\* had exactly one of Commit and Rollback called on it, whether fn returned nil,
\* returned an error or panicked; never both are called; and when Begin failed,
\* fn has not run and neither has been called.
C28_FinishedExactlyOnce ==
    /\ ~(txn.commitCalled /\ txn.rollbackCalled)
    /\ (TxLeft /\ txn.begun) => (txn.commitCalled \/ txn.rollbackCalled)
    /\ (TxLeft /\ ~txn.begun) =>
          /\ ~txn.fnReturned /\ ~txn.panicked /\ txn.writes = {}
          /\ ~txn.commitCalled /\ ~txn.rollbackCalled

\* a connect call is running
Connecting == conn.pc \in {"open", "ping", "sleep"}

\* the connect call has returned
Returned == conn.pc = "done"

\* the attempts made so far that failed
Failures == Len(conn.errs)

\* what holds of the retry loop at every point
ConnectInv ==
    /\ conn.attempts <= maxRetries
    /\ conn.sleeps = conn.i
    /\ conn.waited = SleepSeconds * conn.sleeps
    /\ conn.pc = "open" => conn.attempts = conn.i /\ Failures = conn.i
    /\ conn.pc = "ping" => conn.attempts = conn.i + 1 /\ Failures = conn.i
    /\ conn.pc = "sleep" =>
          conn.attempts = conn.i + 1 /\ Failures = conn.i + 1 /\ Failures < maxRetries
    /\ ~Returned => conn.ret.conn = "none"
    /\ (Returned /\ conn.ret.err = "") =>
          /\ conn.ret.conn = conn.kind
          /\ conn.attempts = Failures + 1
          /\ conn.sleeps = Failures
    /\ (Returned /\ conn.ret.err # "") =>
          /\ conn.ret.conn = "nil"
          /\ conn.attempts = maxRetries /\ Failures = maxRetries
          /\ conn.sleeps = maxRetries - 1
          /\ conn.ret.err = ConnectError(conn.errs[maxRetries])

\* C29: ConnectDBPool and ConnectDB make at most 5 attempts and return: on the
\* first attempt whose open and ping both succeed they return the connection, with
\* no further attempt; they sleep 2 seconds after each failed attempt but the
\* fifth; after 5 failed attempts they return nil and an error that wraps the
\* failure of the fifth attempt.
C29_ConnectTerminates == []ConnectInv /\ (Connecting ~> Returned)

\* four attempts have failed, the fifth has connected: the call has returned the
\* connection after four sleeps
C29_Witness ==
    /\ Returned
    /\ conn.ret.err = ""
    /\ conn.ret.conn = "pool"
    /\ conn.attempts = maxRetries
    /\ conn.sleeps = maxRetries - 1

====
